---- MODULE Spec2Model ----
(***************************************************************************)
(* Model of s3-vector-connector/example/data_loader.py: the sequential,    *)
(* one-record-per-second insert loop and the KeyspacesRetryPolicy that the *)
(* driver consults inside session.execute.                                 *)
(*                                                                         *)
(* Time is counted in whole seconds.  gap is the time elapsed since the    *)
(* start of the most recent write attempt (saturating at MaxGap).          *)
(*                                                                         *)
(* Specifications:                                                         *)
(*   Spec, FairSpec   CSV loading and the insert loop (FairSpec: a run     *)
(*                    that is not interrupted)                             *)
(*   ScenarioSpec     the insert loop over three rows, on the clock of     *)
(*                    start_time                                           *)
(*   RerunSpec        the script run twice on one CSV, the table followed  *)
(*   PolicySpec       the hooks of KeyspacesRetryPolicy, called one by one *)
(*   PollSpec, PollFairSpec   the table activation polling loop            *)
(***************************************************************************)
EXTENDS Integers, Sequences, FiniteSets, TLC

(* ----------------------------- bounds ---------------------------------- *)
MaxRows == 10            \* longest CSV modelled (valid rows)
MaxFewTransients == 2    \* small numbers of transient failures a sink plan may hold
MaxRetryNum == 24        \* cap on the driver's retry counter (never reached by the code)
MaxGap == 2              \* saturation of the seconds-since-last-attempt clock
MaxRerunRows == 3        \* longest CSV of a script that is run twice
MaxChecks == 124         \* cap on the status checks followed (never reached by the code)

(* ------------------------ program constants ---------------------------- *)
RETRY_MAX_ATTEMPTS == 20
ProgressInterval == 10
SleepSeconds == 1
max_wait_time == 120
wait_interval == 1

None == "None"
LOCAL_QUORUM == "LOCAL_QUORUM"
RETRY == "RETRY"
RETHROW == "RETHROW"

TransientKinds == {"write_timeout", "unavailable", "request_error"}

\* numbers of transient failures a sink may return before its final answer
TransientCounts ==
    (0..MaxFewTransients) \cup ((RETRY_MAX_ATTEMPTS - 1)..(RETRY_MAX_ATTEMPTS + 2))

\* behaviour of the sink for one record: k transient failures and then
\* success ("ok_after") or a permanent error ("perm_after"), or transient
\* failures for ever ("always")
SinkPlans ==
    [kind : {"ok_after", "perm_after"}, k : TransientCounts]
        \cup {[kind |-> "always", k |-> 0]}

\* whole seconds a write attempt takes: under one second, or one second and more
Durations == {0, 1}

Min(a, b) == IF a < b THEN a ELSE b

VARIABLES
    csvRows,       \* number of valid rows movies_list.csv holds
    rows,          \* the valid CSV rows read so far, identified by their source position
    i,             \* loop index of enumerate(rows, 1); 0 before the loop
    row,           \* source position of the row the loop holds; 0 before the loop
    pc,            \* "load" | "next" | "execute" | "sleep" | "done" | "aborted"
    retry_num,     \* driver's retry counter for the running session.execute
    consistency,   \* consistency level of the running request
    successful,    \* counter successful
    failed,        \* counter failed
    reported,      \* the final report (lines 296-300) has been printed
    emitted,       \* the current record printed a progress line
    cancelPc,      \* where a KeyboardInterrupt hit the loop, "none" if it did not
    plan,          \* sink behaviour for the current record
    attempts,      \* write attempts made for the current record
    result,        \* "none" | "succeeded" | "failed" for the current record
    lastOutcome,   \* what the sink answered to the latest attempt
    attempted,     \* number of records that had at least one write attempt
    doneLog,       \* source positions of the records in order of terminal outcome
    lastAttempted, \* source position of the latest write attempt, 0 if none
    gap,           \* seconds since the start of the latest write attempt
    lastGap,       \* gap measured when the latest write attempt started
    gapKind,       \* "none" | "first" | "retry" | "next": what lastGap separates
    sleeps         \* pacing sleeps (time.sleep(1)) the loop has finished

\* the state of the insert loop
loopVars == <<csvRows, rows, i, row, pc, retry_num, consistency, successful, failed,
              reported, emitted, cancelPc, plan, attempts, result, lastOutcome,
              attempted, doneLog, lastAttempted, gap, lastGap, gapKind, sleeps>>

VARIABLES
    elapsed        \* whole seconds since start_time, where a run is timed

VARIABLES
    source,          \* the CSV rows as <<title, payload>>, where a table is kept
    table,           \* rows stored in media.movies, one per title
    tableAfterFirst, \* the table as the first run of the script left it
    run,             \* 1 | 2: which run of the script is inserting; 3 when both ended
    cursor,          \* rows of source the current run has dealt with
    recordFailed     \* some record of some run ended as failed

rerunVars == <<source, table, tableAfterFirst, run, cursor, recordFailed>>

VARIABLES
    elapsed_time,  \* elapsed_time of the table activation loop
    pollPc,        \* "check" | "wait" | "after" | "insert"
    checks,        \* status checks made so far
    sawActive,     \* some status check saw status ACTIVE
    lastCheck,     \* what the latest status check gave, "none" before the first
    message        \* "none" | "ready" | "warning": what line 205-208 printed

pollVars == <<elapsed_time, pollPc, checks, sawActive, lastCheck, message>>

VARIABLES
    hook,            \* the hook of KeyspacesRetryPolicy the driver called last
    arg_consistency, \* its consistency argument
    arg_retry_num,   \* its retry_num argument
    returned         \* what it returned

policyVars == <<hook, arg_consistency, arg_retry_num, returned>>

vars == <<loopVars, elapsed, rerunVars, pollVars, policyVars>>

(* ------------------------ KeyspacesRetryPolicy ------------------------- *)
on_read_timeout_Strict(cl, rn) ==
    IF rn < RETRY_MAX_ATTEMPTS THEN <<RETRY, cl>> ELSE <<RETHROW, None>>

on_read_timeout(cl, rn) ==
    IF rn <= RETRY_MAX_ATTEMPTS THEN <<RETRY, cl>> ELSE <<RETHROW, None>>

on_write_timeout_NoRetry(cl, rn) == <<RETHROW, None>>

on_write_timeout(cl, rn) ==
    IF rn <= RETRY_MAX_ATTEMPTS THEN <<RETRY, cl>> ELSE <<RETHROW, None>>

on_unavailable_Forever(cl, rn) == <<RETRY, cl>>

on_unavailable(cl, rn) ==
    IF rn <= RETRY_MAX_ATTEMPTS THEN <<RETRY, cl>> ELSE <<RETHROW, None>>

on_request_error(cl, rn) ==
    IF rn <= RETRY_MAX_ATTEMPTS THEN <<RETRY, cl>> ELSE <<RETHROW, None>>

(* ---------------- session.execute: sink and driver --------------------- *)
\* answer of the sink to the n-th attempt on a record with plan p; kind is
\* the transient error the server picks when it fails transiently
SinkWrite(p, n, kind) ==
    IF p.kind = "always" \/ n <= p.k THEN kind
    ELSE IF p.kind = "ok_after" THEN "ok"
    ELSE "permanent"

RetryDecision_AlsoPermanent(outcome, cl, rn) ==
    IF outcome = "write_timeout" THEN on_write_timeout(cl, rn)
    ELSE IF outcome = "unavailable" THEN on_unavailable(cl, rn)
    ELSE on_request_error(cl, rn)

\* the driver asks the profile's retry policy only for the errors that have
\* a hook; every other error is raised to the caller at once
RetryDecision(outcome, cl, rn) ==
    IF outcome = "write_timeout" THEN on_write_timeout(cl, rn)
    ELSE IF outcome = "unavailable" THEN on_unavailable(cl, rn)
    ELSE IF outcome = "request_error" THEN on_request_error(cl, rn)
    ELSE <<RETHROW, None>>

(* --------------------------- the insert loop --------------------------- *)
enumerate_Reversed(rs, k) == rs[Len(rs) + 1 - k]

\* the row enumerate(rows, 1) hands out with index k
enumerate(rs, k) == rs[k]

ProgressDue_BySuccessCount(idx, succ) == succ % ProgressInterval = 0

\* line 275: if i % 10 == 0
ProgressDue(idx, succ) == idx % ProgressInterval = 0

ShouldSleepTry_Never(idx, n) == FALSE

ShouldSleepTry_Always(idx, n) == idx <= n

ShouldSleepTry(idx, n) == idx < n

ShouldSleepExcept_Never(idx, n) == FALSE

ShouldSleepExcept(idx, n) == idx < n

\* the script at position p, with the rows rs read out of n and no record
\* inserted yet
StartState(rs, n, p) ==
    /\ rows = rs
    /\ csvRows = n
    /\ i = 0
    /\ row = 0
    /\ pc = p
    /\ retry_num = 0
    /\ consistency = LOCAL_QUORUM
    /\ successful = 0
    /\ failed = 0
    /\ reported = FALSE
    /\ emitted = FALSE
    /\ cancelPc = "none"
    /\ plan = [kind |-> "ok_after", k |-> 0]
    /\ attempts = 0
    /\ result = "none"
    /\ lastOutcome = "none"
    /\ attempted = 0
    /\ doneLog = <<>>
    /\ lastAttempted = 0
    /\ gap = 0
    /\ lastGap = 0
    /\ gapKind = "none"
    /\ sleeps = 0

\* lines 254-256: the loop is about to start on the rows rs
LoopStart(rs) == StartState(rs, Len(rs), "next")

\* no table content is followed
RerunIdle ==
    /\ source = <<>>
    /\ table = <<>>
    /\ tableAfterFirst = <<>>
    /\ run = 0
    /\ cursor = 0
    /\ recordFailed = FALSE

\* the table activation loop is over
PollIdle ==
    /\ elapsed_time = 0
    /\ pollPc = "insert"
    /\ checks = 0
    /\ sawActive = FALSE
    /\ lastCheck = "none"
    /\ message = "none"

\* no hook of the retry policy is looked at on its own
PolicyIdle ==
    /\ hook = "none"
    /\ arg_consistency = LOCAL_QUORUM
    /\ arg_retry_num = 0
    /\ returned = <<"none", None>>

Init ==
    /\ \E n \in 0..MaxRows : StartState(<<>>, n, "load")
    /\ elapsed = 0
    /\ RerunIdle
    /\ PollIdle
    /\ PolicyIdle

LoadFinished_Early(rs, n) == TRUE

\* line 221: "for r in reader" ends when the reader has no row left
LoadFinished(rs, n) == Len(rs) = n

\* lines 221-236: one more row of the CSV is appended to rows
ReadRowStep ==
    /\ pc = "load"
    /\ Len(rows) < csvRows
    /\ rows' = Append(rows, Len(rows) + 1)
    /\ UNCHANGED <<csvRows, i, row, pc, retry_num, consistency, successful,
                   failed, reported, emitted, cancelPc, plan, attempts, result,
                   lastOutcome, attempted, doneLog, lastAttempted, gap, lastGap,
                   gapKind, sleeps>>

\* lines 238-256: the CSV is read, the statement prepared, the counters set
StartInsertStep ==
    /\ pc = "load"
    /\ LoadFinished(rows, csvRows)
    /\ pc' = "next"
    /\ UNCHANGED <<csvRows, rows, i, row, retry_num, consistency, successful,
                   failed, reported, emitted, cancelPc, plan, attempts, result,
                   lastOutcome, attempted, doneLog, lastAttempted, gap, lastGap,
                   gapKind, sleeps>>

NextRecordStep_NoWait ==
    /\ pc \in {"next", "execute"}
    /\ i < Len(rows)
    /\ i' = i + 1
    /\ row' = enumerate(rows, i + 1)
    /\ \E p \in SinkPlans : plan' = p
    /\ retry_num' = 0
    /\ consistency' = LOCAL_QUORUM
    /\ attempts' = 0
    /\ result' = "none"
    /\ lastOutcome' = "none"
    /\ emitted' = FALSE
    /\ pc' = "execute"
    /\ UNCHANGED <<csvRows, rows, successful, failed, reported, cancelPc,
                   attempted, doneLog, lastAttempted, gap, lastGap, gapKind,
                   sleeps>>

\* for i, row in enumerate(rows, 1): take the next row and enter the try
NextRecordStep ==
    /\ pc = "next"
    /\ i < Len(rows)
    /\ i' = i + 1
    /\ row' = enumerate(rows, i + 1)
    /\ \E p \in SinkPlans : plan' = p
    /\ retry_num' = 0
    /\ consistency' = LOCAL_QUORUM
    /\ attempts' = 0
    /\ result' = "none"
    /\ lastOutcome' = "none"
    /\ emitted' = FALSE
    /\ pc' = "execute"
    /\ UNCHANGED <<csvRows, rows, successful, failed, reported, cancelPc, attempted,
                   doneLog, lastAttempted, gap, lastGap, gapKind, sleeps>>

\* lines 272-286: the statements of the try block after session.execute
TryBranch ==
    /\ successful' = successful + 1
    /\ failed' = failed
    /\ emitted' = ProgressDue(i, successful + 1)
    /\ result' = "succeeded"
    /\ doneLog' = Append(doneLog, row)
    /\ pc' = IF ShouldSleepTry(i, Len(rows)) THEN "sleep" ELSE "next"
    /\ UNCHANGED <<retry_num, consistency>>

ExceptBranch_NoCount ==
    /\ failed' = failed
    /\ successful' = successful
    /\ emitted' = FALSE
    /\ result' = "failed"
    /\ doneLog' = Append(doneLog, row)
    /\ pc' = IF ShouldSleepExcept(i, Len(rows)) THEN "sleep" ELSE "next"
    /\ UNCHANGED <<retry_num, consistency>>

ExceptBranch_Abort ==
    /\ failed' = failed + 1
    /\ successful' = successful
    /\ emitted' = FALSE
    /\ result' = "failed"
    /\ doneLog' = Append(doneLog, row)
    /\ pc' = "done"
    /\ UNCHANGED <<retry_num, consistency>>

\* lines 288-294: except Exception
ExceptBranch ==
    /\ failed' = failed + 1
    /\ successful' = successful
    /\ emitted' = FALSE
    /\ result' = "failed"
    /\ doneLog' = Append(doneLog, row)
    /\ pc' = IF ShouldSleepExcept(i, Len(rows)) THEN "sleep" ELSE "next"
    /\ UNCHANGED <<retry_num, consistency>>

\* the driver re-sends the request at once with the consistency the policy returned
DriverRetry(decision) ==
    /\ retry_num' = retry_num + 1
    /\ consistency' = decision[2]
    /\ UNCHANGED <<successful, failed, emitted, result, doneLog, pc>>

\* one write attempt of session.execute(prepared, ...) and what follows it
AttemptStep ==
    /\ pc = "execute"
    /\ retry_num <= MaxRetryNum
    /\ \E kind \in TransientKinds, d \in Durations :
        LET outcome == SinkWrite(plan, attempts + 1, kind)
            decision == RetryDecision(outcome, consistency, retry_num)
        IN  /\ attempts' = attempts + 1
            /\ lastOutcome' = outcome
            /\ attempted' = IF attempts = 0 THEN attempted + 1 ELSE attempted
            /\ lastAttempted' = row
            /\ lastGap' = gap
            /\ gapKind' = IF lastAttempted = 0 THEN "first"
                          ELSE IF attempts = 0 THEN "next" ELSE "retry"
            /\ gap' = d
            /\ IF outcome = "ok" THEN TryBranch
               ELSE IF decision[1] = RETRY THEN DriverRetry(decision)
               ELSE ExceptBranch
    /\ UNCHANGED <<csvRows, rows, i, row, reported, cancelPc, plan, sleeps>>

\* time.sleep(1) of line 286 or line 294
SleepStep ==
    /\ pc = "sleep"
    /\ gap' = Min(gap + SleepSeconds, MaxGap)
    /\ pc' = "next"
    /\ sleeps' = sleeps + 1
    /\ UNCHANGED <<csvRows, rows, i, row, retry_num, consistency, successful, failed,
                   reported, emitted, cancelPc, plan, attempts, result,
                   lastOutcome, attempted, doneLog, lastAttempted, lastGap,
                   gapKind>>

\* the loop is exhausted: lines 296-300 print the report
ReportStep ==
    /\ pc = "next"
    /\ i >= Len(rows)
    /\ reported' = TRUE
    /\ pc' = "done"
    /\ UNCHANGED <<csvRows, rows, i, row, retry_num, consistency, successful, failed,
                   emitted, cancelPc, plan, attempts, result, lastOutcome,
                   attempted, doneLog, lastAttempted, gap, lastGap, gapKind,
                   sleeps>>

\* the only way to cancel the script: SIGINT raises KeyboardInterrupt, which
\* "except Exception" does not catch, so the script dies where it stands
InterruptStep ==
    /\ pc \in {"next", "execute", "sleep"}
    /\ cancelPc' = pc
    /\ pc' = "aborted"
    /\ UNCHANGED <<csvRows, rows, i, row, retry_num, consistency, successful, failed,
                   reported, emitted, plan, attempts, result, lastOutcome,
                   attempted, doneLog, lastAttempted, gap, lastGap, gapKind,
                   sleeps>>

\* the steps of the insert loop, in a state where nothing else is followed
NextRecord == NextRecordStep /\ UNCHANGED <<elapsed, rerunVars, pollVars, policyVars>>

Attempt == AttemptStep /\ UNCHANGED <<elapsed, rerunVars, pollVars, policyVars>>

Sleep == SleepStep /\ UNCHANGED <<elapsed, rerunVars, pollVars, policyVars>>

Report == ReportStep /\ UNCHANGED <<elapsed, rerunVars, pollVars, policyVars>>

Interrupt == InterruptStep /\ UNCHANGED <<elapsed, rerunVars, pollVars, policyVars>>

ReadRow == ReadRowStep /\ UNCHANGED <<elapsed, rerunVars, pollVars, policyVars>>

StartInsert == StartInsertStep /\ UNCHANGED <<elapsed, rerunVars, pollVars, policyVars>>

NextRun == ReadRow \/ StartInsert \/ NextRecord \/ Attempt \/ Sleep \/ Report

Next == NextRun \/ Interrupt

Spec == Init /\ [][Next]_vars

\* a run that nobody interrupts; every step the script can take is taken
FairSpec == Init /\ [][NextRun]_vars /\ WF_vars(NextRun)

(* ------------- waiting for the table to become active ------------------- *)
\* outcomes of one status check: the row says ACTIVE, the row says another
\* status, result.one() is None, or session.execute raised
CheckResults == {"ACTIVE", "CREATING", "no_row", "exception"}

WaitLoopCondition_Forever(et) == TRUE

\* line 181: while elapsed_time < max_wait_time
WaitLoopCondition(et) == et < max_wait_time

ReadyMessage_Strict(et) == IF et > max_wait_time THEN "warning" ELSE "ready"

\* lines 205-208
ReadyMessage(et) == IF et >= max_wait_time THEN "warning" ELSE "ready"

\* lines 177-179, before the CSV is opened
PollInit ==
    /\ StartState(<<>>, 0, "load")
    /\ elapsed = 0
    /\ RerunIdle
    /\ PolicyIdle
    /\ elapsed_time = 0
    /\ pollPc = "check"
    /\ checks = 0
    /\ sawActive = FALSE
    /\ lastCheck = "none"
    /\ message = "none"

\* lines 181-200: the loop goes round once more and queries the status
PollCheck ==
    /\ pollPc = "check"
    /\ WaitLoopCondition(elapsed_time)
    /\ checks < MaxChecks
    /\ checks' = checks + 1
    /\ \E res \in CheckResults :
        /\ lastCheck' = res
        /\ sawActive' = (sawActive \/ res = "ACTIVE")
        /\ pollPc' = IF res = "ACTIVE" THEN "after" ELSE "wait"
    /\ UNCHANGED <<elapsed_time, message>>
    /\ UNCHANGED <<loopVars, elapsed, rerunVars, policyVars>>

\* lines 202-203: time.sleep(wait_interval); elapsed_time += wait_interval
PollWait ==
    /\ pollPc = "wait"
    /\ elapsed_time' = elapsed_time + wait_interval
    /\ pollPc' = "check"
    /\ UNCHANGED <<checks, sawActive, lastCheck, message>>
    /\ UNCHANGED <<loopVars, elapsed, rerunVars, policyVars>>

\* line 181: the loop condition fails
PollExit ==
    /\ pollPc = "check"
    /\ ~WaitLoopCondition(elapsed_time)
    /\ pollPc' = "after"
    /\ UNCHANGED <<elapsed_time, checks, sawActive, lastCheck, message>>
    /\ UNCHANGED <<loopVars, elapsed, rerunVars, policyVars>>

\* lines 205-208: one of the two messages, then the script goes on to the CSV
PollReport ==
    /\ pollPc = "after"
    /\ message' = ReadyMessage(elapsed_time)
    /\ pollPc' = "insert"
    /\ UNCHANGED <<elapsed_time, checks, sawActive, lastCheck>>
    /\ UNCHANGED <<loopVars, elapsed, rerunVars, policyVars>>

PollNext == PollCheck \/ PollWait \/ PollExit \/ PollReport

PollSpec == PollInit /\ [][PollNext]_vars

\* the script keeps running
PollFairSpec == PollInit /\ [][PollNext]_vars /\ WF_vars(PollNext)

(* ------------- the hooks of the retry policy, called one by one --------- *)
Hooks == {"on_read_timeout", "on_write_timeout", "on_unavailable", "on_request_error"}

ConsistencyLevels == {"ONE", "LOCAL_ONE", LOCAL_QUORUM}

\* the hook h of the policy object, called with consistency cl and retry_num rn
CallHook(h, cl, rn) ==
    IF h = "on_read_timeout" THEN on_read_timeout(cl, rn)
    ELSE IF h = "on_write_timeout" THEN on_write_timeout(cl, rn)
    ELSE IF h = "on_unavailable" THEN on_unavailable(cl, rn)
    ELSE on_request_error(cl, rn)

PolicyInit ==
    /\ LoopStart(<<>>)
    /\ elapsed = 0
    /\ RerunIdle
    /\ PollIdle
    /\ PolicyIdle

\* the driver calls one hook; the policy object holds nothing but
\* RETRY_MAX_ATTEMPTS, which no hook writes
PolicyCall ==
    /\ \E h \in Hooks, cl \in ConsistencyLevels, rn \in 0..MaxRetryNum :
        /\ hook' = h
        /\ arg_consistency' = cl
        /\ arg_retry_num' = rn
        /\ returned' = CallHook(h, cl, rn)
    /\ UNCHANGED <<loopVars, elapsed, rerunVars, pollVars>>

PolicyNext == PolicyCall

PolicySpec == PolicyInit /\ [][PolicyNext]_vars

(* ------------- a timed run over three rows A, B, C --------------------- *)
\* the sink fails row 2 (B) transiently twice and then stores it; rows 1 (A)
\* and 3 (C) are stored at the first attempt
ScenarioPlan(r) ==
    IF r = 2 THEN [kind |-> "ok_after", k |-> 2] ELSE [kind |-> "ok_after", k |-> 0]

\* line 256: start_time = time.time()
ScenarioInit ==
    /\ LoopStart(<<1, 2, 3>>)
    /\ elapsed = 0
    /\ RerunIdle
    /\ PollIdle
    /\ PolicyIdle

ScenarioNextRecord ==
    /\ NextRecordStep
    /\ plan' = ScenarioPlan(row')
    /\ UNCHANGED <<elapsed, rerunVars, pollVars, policyVars>>

\* the write attempt takes gap' seconds of the run
TimedAttempt ==
    /\ AttemptStep
    /\ elapsed' = elapsed + gap'
    /\ UNCHANGED <<rerunVars, pollVars, policyVars>>

TimedSleep ==
    /\ SleepStep
    /\ elapsed' = elapsed + SleepSeconds
    /\ UNCHANGED <<rerunVars, pollVars, policyVars>>

\* line 296: total_time = time.time() - start_time, then the report
TimedReport == ReportStep /\ UNCHANGED <<elapsed, rerunVars, pollVars, policyVars>>

ScenarioNext == ScenarioNextRecord \/ TimedAttempt \/ TimedSleep \/ TimedReport

ScenarioSpec == ScenarioInit /\ [][ScenarioNext]_vars

(* ------------- running the script again on the same CSV ---------------- *)
\* the rows of a CSV: <<title, payload>>, titles may repeat
Titles == {"A", "B"}

Payloads == {1, 2}

Sources == UNION {[1..n -> Titles \X Payloads] : n \in 0..MaxRerunRows}

\* CREATE TABLE IF NOT EXISTS: the table may hold a row of an earlier load
InitialTables == {<<>>, <<(<<"A", 0>>)>>}

Upsert_Append(t, rec) == Append(t, rec)

\* INSERT INTO media.movies with PRIMARY KEY (title): a row with the same
\* title is replaced, any other title adds a row
Upsert(t, rec) ==
    IF \E k \in 1..Len(t) : t[k][1] = rec[1]
    THEN [k \in 1..Len(t) |-> IF t[k][1] = rec[1] THEN rec ELSE t[k]]
    ELSE Append(t, rec)

RerunInit ==
    /\ LoopStart(<<>>)
    /\ elapsed = 0
    /\ PollIdle
    /\ PolicyIdle
    /\ source \in Sources
    /\ table \in InitialTables
    /\ tableAfterFirst = <<>>
    /\ run = 1
    /\ cursor = 0
    /\ recordFailed = FALSE

\* one iteration of the insert loop, up to the record's terminal outcome:
\* session.execute stored the row, or raised and the except branch went on
RerunInsert ==
    /\ run \in {1, 2}
    /\ cursor < Len(source)
    /\ cursor' = cursor + 1
    /\ \E stored \in BOOLEAN :
        /\ table' = IF stored THEN Upsert(table, source[cursor + 1]) ELSE table
        /\ recordFailed' = (recordFailed \/ ~stored)
    /\ UNCHANGED <<source, tableAfterFirst, run>>
    /\ UNCHANGED <<loopVars, elapsed, pollVars, policyVars>>

\* the loop is exhausted and the script ends; it is then started again
RerunEnd ==
    /\ run \in {1, 2}
    /\ cursor = Len(source)
    /\ run' = run + 1
    /\ cursor' = 0
    /\ tableAfterFirst' = IF run = 1 THEN table ELSE tableAfterFirst
    /\ UNCHANGED <<source, table, recordFailed>>
    /\ UNCHANGED <<loopVars, elapsed, pollVars, policyVars>>

RerunNext == RerunInsert \/ RerunEnd

RerunSpec == RerunInit /\ [][RerunNext]_vars

TypeOK ==
    /\ i \in 0..Len(rows)
    /\ pc \in {"load", "next", "execute", "sleep", "done", "aborted"}
    /\ retry_num \in 0..(MaxRetryNum + 1)
    /\ successful \in 0..Len(rows)
    /\ failed \in 0..Len(rows)
    /\ plan \in SinkPlans
    /\ gap \in 0..MaxGap

(* ------------------------------ claims --------------------------------- *)

\* C1: when a run completes without being cancelled, succeeded + failed =
\* attempted = the number of records taken from the source; and at every
\* moment each record that reached a terminal outcome is counted exactly
\* once, as successful or as failed.
C1_CountersBalance ==
    /\ successful + failed = Len(doneLog)
    /\ pc = "done" =>
          /\ successful + failed = attempted
          /\ attempted = i
          /\ i = Len(rows)

C1_Witness == pc = "done" /\ successful >= 2 /\ failed >= 2

\* C2: a record whose sink always fails transiently gets exactly
\* RETRY_MAX_ATTEMPTS write attempts and is then counted as failed.
C2_ExhaustedAfterMaxAttempts ==
    (result # "none" /\ plan.kind = "always") =>
        (attempts = RETRY_MAX_ATTEMPTS /\ result = "failed")

C4_TransientThenSuccess ==
    [][(result = "none" /\ result' # "none"
          /\ plan.kind = "ok_after" /\ plan.k < RETRY_MAX_ATTEMPTS) =>
        (/\ result' = "succeeded"
         /\ successful' = successful + 1
         /\ failed' = failed
         /\ attempts' = plan.k + 1)]_vars

C4_Witness ==
    /\ result = "succeeded"
    /\ plan.k = RETRY_MAX_ATTEMPTS - 1
    /\ attempts = RETRY_MAX_ATTEMPTS

\* C5: the write attempt the sink answers with a permanent failure is the last
\* one for its record (the only one when the failure comes first): the record
\* is counted in failed in that very step and the loop moves on.
C5_PermanentNotRetried ==
    /\ [](result # "none" => pc # "execute")
    /\ [][(attempts' = attempts + 1 /\ lastOutcome' = "permanent") =>
            (/\ result' = "failed"
             /\ failed' = failed + 1
             /\ successful' = successful
             /\ pc' \in {"sleep", "next"}
             /\ attempts' = plan.k + 1)]_vars

C5_Witness ==
    /\ result = "failed"
    /\ lastOutcome = "permanent"
    /\ attempts = 1
    /\ pc = "sleep"

\* C6: a record's terminal failure adds one to failed, leaves successful and
\* the outcomes of the earlier records as they were, and the loop goes on: a
\* completed run has attempted every record of the source.
C6_FailureContained ==
    /\ [](pc = "done" => (attempted = Len(rows) /\ Len(doneLog) = Len(rows)))
    /\ [][(result = "none" /\ result' = "failed") =>
            (/\ successful' = successful
             /\ failed' = failed + 1
             /\ doneLog' = Append(doneLog, row)
             /\ pc' \in {"sleep", "next"})]_vars

C6_Witness ==
    /\ pc = "done"
    /\ failed >= 1
    /\ result = "succeeded"
    /\ lastAttempted = Len(rows)
    /\ Len(rows) >= 3

\* C7: a run that is not interrupted ends with its report, whatever the sink
\* does, and no record gets more than RETRY_MAX_ATTEMPTS + 2 write attempts.
C7_RunCompletes ==
    /\ [](attempts <= RETRY_MAX_ATTEMPTS + 2)
    /\ <>(pc = "done" /\ reported)

C7_Witness ==
    /\ pc = "done"
    /\ reported
    /\ plan.kind = "always"
    /\ attempts = RETRY_MAX_ATTEMPTS + 2
    /\ successful >= 1

\* C8: records are attempted and reach their terminal outcome in source order:
\* a write attempt on record j happens only once records 1..j-1 are all
\* terminal, and no later attempt goes back to an earlier record.
C8_SourceOrder ==
    /\ [](/\ \A k \in 1..Len(doneLog) : doneLog[k] = k
          /\ lastAttempted >= Len(doneLog)
          /\ lastAttempted <= Len(doneLog) + 1)
    /\ [][lastAttempted' >= lastAttempted]_vars

C8_Witness ==
    /\ Len(doneLog) = 2
    /\ lastAttempted = 3
    /\ attempts >= 2
    /\ pc = "execute"

\* C9: cancelling while record 2 of 5 is being processed yields the partial
\* report of exactly 2 completed records and no write attempt on records 3-5.
C9_CancelYieldsPartialReport ==
    (pc = "aborted" /\ cancelPc = "execute" /\ i = 2 /\ Len(rows) = 5) =>
        (reported /\ successful + failed = 2 /\ lastAttempted <= 2)

\* C10 (as claimed): a progress line is printed exactly when the count of
\* successful records reaches a positive multiple of ProgressInterval.
C10_ProgressBySuccessCount ==
    emitted <=>
        (result = "succeeded" /\ successful > 0
            /\ successful % ProgressInterval = 0)

\* C10 (amended): a progress line is printed exactly when a record whose
\* 1-based position in the source is a multiple of ProgressInterval is
\* inserted successfully.
C10_ProgressByRecordIndex ==
    emitted <=> (result = "succeeded" /\ i > 0 /\ i % ProgressInterval = 0)

C10_Witness == emitted /\ successful < i

C13_LazySource ==
    Len(rows) - (successful + failed) <= 1

\* C13 (amended): the whole source is read into rows before the first write
\* attempt, so up to all its records are read and not yet terminal; the
\* insert loop itself takes record i+1 from rows only once record i has been
\* written or has terminally failed.
C13_EagerReadSequentialLoop ==
    /\ pc # "load" => Len(rows) = csvRows
    /\ pc = "load" => (attempted = 0 /\ i = 0)
    /\ i - (successful + failed) \in {0, 1}
    /\ i - (successful + failed) = 1 <=> (i > 0 /\ result = "none")

C13_Witness ==
    /\ pc = "execute"
    /\ i = 2
    /\ successful + failed = 1
    /\ Len(rows) - (successful + failed) >= 3

C17_ReadyIffActive ==
    /\ pollPc = "insert" =>
          /\ message \in {"ready", "warning"}
          /\ message = "ready" <=> sawActive
          /\ message = "warning" <=> ~sawActive
    /\ pollPc # "insert" => message = "none"

C17_Witness ==
    /\ pollPc = "insert"
    /\ sawActive
    /\ checks = max_wait_time \div wait_interval
    /\ message = "ready"

\* C18: the insert loop sleeps once after each record but the last, whether
\* the record succeeded or failed: a completed run over n >= 1 records has
\* slept n-1 times, a run over no record never.
C18_SleepCount ==
    /\ pc = "done" =>
          sleeps = IF Len(rows) = 0 THEN 0 ELSE Len(rows) - 1
    /\ pc = "execute" => sleeps = i - 1
    /\ pc = "sleep" => (sleeps = i - 1 /\ i < Len(rows) /\ result # "none")
    /\ (pc = "next" /\ 0 < i /\ i < Len(rows)) => sleeps = i

C18_Witness ==
    /\ pc = "done"
    /\ Len(rows) >= 3
    /\ sleeps = Len(rows) - 1
    /\ successful >= 1
    /\ failed >= 1
    /\ result = "failed"
====
